---- MODULE Spec2Model ----
(***************************************************************************)
(* Model of the binary analysis session of rust-mcp-filebuffer:            *)
(* src/src/state.rs (ServerState), src/src/tools.rs (the eleven tools) and *)
(* src/src/handler.rs (the shared Arc<RwLock<ServerState>> and dispatch).  *)
(*                                                                         *)
(* Option<T> is modelled as a sequence: <<>> is None, <<x>> is Some(x).    *)
(* Byte strings and text are sequences; a hex string is a sequence of      *)
(* one-character strings.                                                  *)
(***************************************************************************)
EXTENDS Integers, Sequences, FiniteSets, TLC

(***************************************************************************)
(* Bounds of the model.                                                    *)
(***************************************************************************)
\* longest file the file system hands to fs::read
MaxLen == 3
\* usize::MAX, scaled down: usize arithmetic is modulo UsizeMax + 1
UsizeMax == 15
\* entries kept in ServerState.segments before ExtractSegment is no longer called
MaxSegs == 2
\* entries kept in ServerState.analysis_notes before AddNote is no longer called
MaxNotes == 2
\* tool calls the single caller of SpecSeq issues
MaxCalls == 3

Tasks == {"t1", "t2"}
Bytes == {0, 65}

RECURSIVE SeqsUpTo(_, _)
SeqsUpTo(S, n) ==
    IF n = 0 THEN {<<>>}
    ELSE LET shorter == SeqsUpTo(S, n - 1)
         IN  shorter \cup {Append(s, x) : s \in {t \in shorter : Len(t) = n - 1}, x \in S}

Contents == SeqsUpTo(Bytes, MaxLen)

None == <<>>
Some(x) == <<x>>

(***************************************************************************)
(* Results of a call: Ok(CallToolResult), Err(CallToolError), or a panic   *)
(* that unwinds the task.                                                  *)
(***************************************************************************)
Ok(v) == [kind |-> "ok", val |-> v]
Err(msg) == [kind |-> "err", val |-> msg]
Panic(why) == [kind |-> "panic", val |-> why]

(***************************************************************************)
(* usize arithmetic.  `checked` is the build's overflow-checks setting:    *)
(* with it an overflowing `+` panics, without it the sum wraps.            *)
(***************************************************************************)
Overflows(a, b) == a + b > UsizeMax
WrapAdd(a, b) == (a + b) % (UsizeMax + 1)
SaturatingSub(a, b) == IF a >= b THEN a - b ELSE 0
Min(a, b) == IF a <= b THEN a ELSE b

\* &buf[a..b]: in range exactly when a <= b <= buf.len()
SliceOk(buf, a, b) == a <= b /\ b <= Len(buf)
Slice(buf, a, b) == SubSeq(buf, a + 1, b)

(***************************************************************************)
(* hex::decode / hex::encode                                               *)
(***************************************************************************)
HexDigits == <<"0", "1", "2", "3", "4", "5", "6", "7",
               "8", "9", "a", "b", "c", "d", "e", "f">>
UpperDigits == <<"0", "1", "2", "3", "4", "5", "6", "7",
                 "8", "9", "A", "B", "C", "D", "E", "F">>

IsHexChar(c) == \E i \in 1 .. 16 : HexDigits[i] = c \/ UpperDigits[i] = c
HexVal(c) == (CHOOSE i \in 1 .. 16 : HexDigits[i] = c \/ UpperDigits[i] = c) - 1

RECURSIVE HexEncode(_)
HexEncode(bytes) ==
    IF bytes = <<>> THEN <<>>
    ELSE <<HexDigits[(Head(bytes) \div 16) + 1], HexDigits[(Head(bytes) % 16) + 1]>>
         \o HexEncode(Tail(bytes))

RECURSIVE HexPairs(_)
HexPairs(str) ==
    IF str = <<>> THEN <<>>
    ELSE <<16 * HexVal(str[1]) + HexVal(str[2])>> \o HexPairs(SubSeq(str, 3, Len(str)))

\* Ok(bytes), or Err for an odd number of digits or a character that is no hex digit
HexDecode(str) ==
    IF Len(str) % 2 # 0 THEN Err("Invalid hex pattern: Odd number of digits")
    ELSE IF \E i \in 1 .. Len(str) : ~IsHexChar(str[i])
         THEN Err("Invalid hex pattern: Invalid character")
    ELSE Ok(HexPairs(str))

(***************************************************************************)
(* Input domains.  Full: every file of up to MaxLen bytes and every        *)
(* argument around the buffer's ends and at usize::MAX, issued by one      *)
(* caller at a time (SpecSeq).  Small: two files and the boundary          *)
(* arguments, issued by concurrent callers (Spec).                         *)
(***************************************************************************)
OptOf(S) == {None} \cup {Some(x) : x \in S}

\* files longer than MaxLen: a two-byte integer, a string with a zero byte inside,
\* and ten bytes that hold a four-byte and an eight-byte integer
LongFiles == {<<1, 0>>, <<65, 66, 0, 67>>, <<1, 2, 3, 4, 5, 6, 7, 8, 9, 10>>}
MalformedHex == {<<"4">>, <<"4", "g">>, <<"4", "1", "0">>}

Full ==
    [budget    |-> TRUE,
     paths     |-> {"a.bin", "b.bin"},
     contents  |-> Contents \cup LongFiles,
     offsets   |-> (0 .. MaxLen + 1) \cup {UsizeMax},
     marks     |-> (0 .. MaxLen + 1) \cup {UsizeMax},
     lengths   |-> (0 .. MaxLen + 1) \cup {UsizeMax},
     opt_offs  |-> OptOf((0 .. MaxLen + 1) \cup {UsizeMax}),
     opt_lens  |-> OptOf((0 .. MaxLen + 1) \cup {UsizeMax}),
     patterns  |-> {HexEncode(b) : b \in Contents} \cup MalformedHex,
     labels    |-> {None, Some("hdr")},
     names     |-> {"start", "end"},
     sizes     |-> {0, 1, 2, 3, 4, 8},
     endians   |-> {"little", "big", "middle"},
     notes     |-> {<<>>, <<"n">>},
     texts     |-> {<<>>, <<"o">>}]

Small ==
    [budget    |-> FALSE,
     paths     |-> {"a.bin", "b.bin"},
     contents  |-> {<<65>>, <<0, 65>>},
     offsets   |-> {0, 1, UsizeMax},
     marks     |-> {1, 2, UsizeMax},
     lengths   |-> {1, 2},
     opt_offs  |-> {None, Some(3)},
     opt_lens  |-> {None, Some(1)},
     patterns  |-> {<<>>, <<"4", "1">>, <<"4">>},
     labels    |-> {Some("hdr")},
     names     |-> {"start"},
     sizes     |-> {1, 2},
     endians   |-> {"big", "middle"},
     notes     |-> {<<"n">>},
     texts     |-> {<<"o">>}]

\* one file and one value of each argument, with an overflowing offset among them:
\* the domain of the specification with fairness
Tiny ==
    [budget    |-> FALSE,
     paths     |-> {"a.bin"},
     contents  |-> {<<65>>},
     offsets   |-> {0, UsizeMax},
     marks     |-> {1},
     lengths   |-> {1},
     opt_offs  |-> {None},
     opt_lens  |-> {None},
     patterns  |-> {<<"4", "1">>},
     labels    |-> {None},
     names     |-> {"start"},
     sizes     |-> {1},
     endians   |-> {"big"},
     notes     |-> {<<"n">>},
     texts     |-> {<<"o">>}]

(***************************************************************************)
(* The bodies of the tools, as functions of the buffer seen under the      *)
(* guard and of the call's arguments (tools.rs).                            *)
(***************************************************************************)
\* b.is_ascii_graphic() || b == b' ', else '.'
AsciiChar(b) == IF b >= 32 /\ b <= 126 THEN b ELSE 46
Ascii(bytes) == [i \in 1 .. Len(bytes) |-> AsciiChar(bytes[i])]

\* String::from_utf8_lossy on the bytes of the model: an ASCII byte is itself,
\* any other byte becomes U+FFFD
Utf8Lossy(bytes) == [i \in 1 .. Len(bytes) |-> IF bytes[i] < 128 THEN bytes[i] ELSE 65533]

\* Sha256 digest: a collision-free function of the hashed bytes
Sha256(bytes) == [digest_of |-> bytes]

ReadBytesBody(buf, offset, length, checked) ==
    IF checked /\ Overflows(offset, length) THEN Panic("attempt to add with overflow")
    ELSE LET end == WrapAdd(offset, length)
         IN  IF end > Len(buf) THEN Err("Read exceeds buffer bounds")
             ELSE IF ~SliceOk(buf, offset, end) THEN Panic("slice index out of range")
             ELSE LET bytes == Slice(buf, offset, end)
                  IN  Ok([offset |-> offset, length |-> length,
                          hex |-> HexEncode(bytes), ascii |-> Ascii(bytes)])

\* faulty variant: the scan resumes after the end of a match, so matches that
\* overlap an earlier one are not reported
RECURSIVE SearchLoopNonOverlapping(_, _, _, _, _)
SearchLoopNonOverlapping(buf, pat, i, last_i, matches) ==
    IF i > last_i THEN Ok(matches)
    ELSE IF ~SliceOk(buf, i, i + Len(pat)) THEN Panic("slice index out of range")
    ELSE IF Slice(buf, i, i + Len(pat)) = pat
         THEN SearchLoopNonOverlapping(buf, pat, i + (IF pat = <<>> THEN 1 ELSE Len(pat)),
                                       last_i, Append(matches, i))
    ELSE SearchLoopNonOverlapping(buf, pat, i + 1, last_i, matches)

\* for i in 0..=len.saturating_sub(m) { if &buffer[i..i + m] == pattern { push(i) } }
RECURSIVE SearchLoop(_, _, _, _, _)
SearchLoop(buf, pat, i, last_i, matches) ==
    IF i > last_i THEN Ok(matches)
    ELSE IF ~SliceOk(buf, i, i + Len(pat)) THEN Panic("slice index out of range")
    ELSE SearchLoop(buf, pat, i + 1, last_i,
                    IF Slice(buf, i, i + Len(pat)) = pat THEN Append(matches, i) ELSE matches)

SearchPatternBody(buf, pattern) ==
    LET dec == HexDecode(pattern)
    IN  IF dec.kind = "err" THEN dec
        ELSE SearchLoop(buf, dec.val, 0, SaturatingSub(Len(buf), Len(dec.val)), <<>>)

\* faulty variant: the bytes are copied from the start of the buffer, not from offset
ExtractSegmentBodyFromStart(buf, offset, length, label, checked) ==
    IF checked /\ Overflows(offset, length) THEN Panic("attempt to add with overflow")
    ELSE LET end == WrapAdd(offset, length)
         IN  IF end > Len(buf) THEN Err("Segment exceeds buffer bounds")
             ELSE IF ~SliceOk(buf, offset, end) THEN Panic("slice index out of range")
             ELSE Ok([offset |-> offset, data |-> Slice(buf, 0, length), label |-> label])

\* Ok(the BinarySegment to push) or the failure
ExtractSegmentBody(buf, offset, length, label, checked) ==
    IF checked /\ Overflows(offset, length) THEN Panic("attempt to add with overflow")
    ELSE LET end == WrapAdd(offset, length)
         IN  IF end > Len(buf) THEN Err("Segment exceeds buffer bounds")
             ELSE IF ~SliceOk(buf, offset, end) THEN Panic("slice index out of range")
             ELSE Ok([offset |-> offset, data |-> Slice(buf, offset, end), label |-> label])

\* faulty variant: the offset is not compared with the length of the buffer
AddBookmarkBodyUnchecked(buf, name, offset) == Ok([name |-> name, offset |-> offset])

\* faulty variant: the offset one past the end is rejected
AddBookmarkBodyStrict(buf, name, offset) ==
    IF offset >= Len(buf) THEN Err("Offset exceeds buffer size")
    ELSE Ok([name |-> name, offset |-> offset])

AddBookmarkBody(buf, name, offset) ==
    IF offset > Len(buf) THEN Err("Offset exceeds buffer size")
    ELSE Ok([name |-> name, offset |-> offset])

\* bytes.iter().position(|&b| b == 0).unwrap_or(bytes.len())
NullPos(bytes) ==
    IF \E i \in 1 .. Len(bytes) : bytes[i] = 0
    THEN (CHOOSE i \in 1 .. Len(bytes) : bytes[i] = 0 /\ \A j \in 1 .. i - 1 : bytes[j] # 0) - 1
    ELSE Len(bytes)

ReadStringBody(buf, offset, max_length, checked) ==
    IF checked /\ Overflows(offset, max_length) THEN Panic("attempt to add with overflow")
    ELSE LET end == Min(WrapAdd(offset, max_length), Len(buf))
         IN  IF ~SliceOk(buf, offset, end) THEN Panic("slice index out of range")
             ELSE LET bytes == Slice(buf, offset, end)
                      str_bytes == Slice(bytes, 0, NullPos(bytes))
                  IN  Ok([offset |-> offset, len |-> Len(str_bytes),
                          text |-> Utf8Lossy(str_bytes)])

\* A u64 is four 16-bit limbs, least significant first (a 64-bit value does not
\* fit the 32-bit integers of TLC).
\* uN::from_le_bytes(bytes) as u64: the first byte is the least significant one,
\* the bytes above the N-bit width are zero
FromLeBytes(bytes) ==
    LET wide == bytes \o [i \in 1 .. 8 - Len(bytes) |-> 0]
    IN  [j \in 1 .. 4 |-> wide[2 * j - 1] + 256 * wide[2 * j]]

\* faulty variant: the big-endian arms decode like the little-endian ones
FromBeBytesAsLe(bytes) == FromLeBytes(bytes)

\* uN::from_be_bytes(bytes) as u64: the last byte is the least significant one
FromBeBytes(bytes) ==
    FromLeBytes([i \in 1 .. Len(bytes) |-> bytes[Len(bytes) + 1 - i]])

ReadIntegerBody(buf, offset, size, endian, checked) ==
    IF checked /\ Overflows(offset, size) THEN Panic("attempt to add with overflow")
    ELSE LET end == WrapAdd(offset, size)
         IN  IF end > Len(buf) THEN Err("Read exceeds buffer bounds")
             ELSE IF ~SliceOk(buf, offset, end) THEN Panic("slice index out of range")
             ELSE LET bytes == Slice(buf, offset, end)
                  IN  IF size = 1 THEN Ok([size |-> size, value |-> FromLeBytes(<<bytes[1]>>)])
                      ELSE IF size \in {2, 4, 8} /\ endian = "little"
                           THEN Ok([size |-> size, value |-> FromLeBytes(bytes)])
                      ELSE IF size \in {2, 4, 8} /\ endian = "big"
                           THEN Ok([size |-> size, value |-> FromBeBytes(bytes)])
                      ELSE Err("Invalid size or endianness")

\* faulty variant: an omitted length selects nothing instead of the rest of the buffer
CalculateHashBodyNoDefaultEnd(buf, opt_offset, opt_length, checked) ==
    LET offset == IF opt_offset = None THEN 0 ELSE opt_offset[1]
    IN  IF opt_length # None /\ checked /\ Overflows(offset, opt_length[1])
        THEN Panic("attempt to add with overflow")
        ELSE LET end == IF opt_length = None THEN offset
                        ELSE WrapAdd(offset, opt_length[1])
             IN  IF end > Len(buf) THEN Err("Range exceeds buffer size")
                 ELSE IF ~SliceOk(buf, offset, end) THEN Panic("slice index out of range")
                 ELSE LET bytes == Slice(buf, offset, end)
                      IN  Ok([start |-> offset, end |-> end, nbytes |-> Len(bytes),
                              sha256 |-> Sha256(bytes)])

CalculateHashBody(buf, opt_offset, opt_length, checked) ==
    LET offset == IF opt_offset = None THEN 0 ELSE opt_offset[1]
    IN  IF opt_length # None /\ checked /\ Overflows(offset, opt_length[1])
        THEN Panic("attempt to add with overflow")
        ELSE LET end == IF opt_length = None THEN Len(buf)
                        ELSE WrapAdd(offset, opt_length[1])
             IN  IF end > Len(buf) THEN Err("Range exceeds buffer size")
                 ELSE IF ~SliceOk(buf, offset, end) THEN Panic("slice index out of range")
                 ELSE LET bytes == Slice(buf, offset, end)
                      IN  Ok([start |-> offset, end |-> end, nbytes |-> Len(bytes),
                              sha256 |-> Sha256(bytes)])

(***************************************************************************)
(* State.                                                                  *)
(***************************************************************************)
VARIABLES
    buffer,          \* ServerState.buffer: Vec<u8>
    file_loaded,     \* ServerState.file_loaded: Option<String>
    bookmarks,       \* ServerState.bookmarks: HashMap<String, usize>
    segments,        \* ServerState.segments: Vec<BinarySegment>
    analysis_notes,  \* ServerState.analysis_notes: Vec<String>
    output,          \* ServerState.output: String
    readers,         \* RwLock: the tasks holding a read guard
    writer,          \* RwLock: the task holding the write guard, if any
    queue,           \* RwLock: the tasks waiting for a guard, oldest first
    pc,              \* where each task's call_tool future stands
    op,              \* the tool each task is running
    path,            \* LoadBinary.path of the task's call
    data,            \* LoadBinary: the bytes fs::read returned to the task
    last,            \* the call whose result was computed last and is not yet returned
    seen,            \* the buffer each task's bounds test looked at, until the call returns
    grants,          \* the guards each task's current call has been granted
    ncalls           \* tool calls dispatched so far

session == <<buffer, file_loaded, bookmarks, segments, analysis_notes, output>>
lock == <<readers, writer, queue>>
vars == <<buffer, file_loaded, bookmarks, segments, analysis_notes, output,
          readers, writer, queue, pc, op, path, data, last, seen, grants, ncalls>>

EmptyMap == [n \in {} |-> 0]
MapInsert(m, k, v) == [n \in DOMAIN m \cup {k} |-> IF n = k THEN v ELSE m[n]]

\* tool_box!(BinaryTools, [...])
Tools == {"load_binary", "read_bytes", "search_pattern", "extract_segment", "add_bookmark",
          "read_string", "read_integer", "calculate_hash", "get_info", "add_note",
          "set_output"}

\* faulty variant: ExtractSegment takes state.read() instead of state.write()
WriteToolsButExtract == {"load_binary", "add_bookmark", "add_note", "set_output"}

\* faulty variant: LoadBinary takes state.read() instead of state.write()
WriteToolsButLoad == {"extract_segment", "add_bookmark", "add_note", "set_output"}

\* the tools that take state.write(); the others take state.read()
WriteTools == {"load_binary", "extract_segment", "add_bookmark", "add_note", "set_output"}
ReadTools == Tools \ WriteTools

\* ServerState::new(), wrapped in a free RwLock; no call dispatched yet
Init ==
    /\ buffer = <<>>
    /\ file_loaded = None
    /\ bookmarks = EmptyMap
    /\ segments = <<>>
    /\ analysis_notes = <<>>
    /\ output = <<>>
    /\ readers = {}
    /\ writer = None
    /\ queue = <<>>
    /\ pc = [p \in Tasks |-> "idle"]
    /\ op = [p \in Tasks |-> "none"]
    /\ path = [p \in Tasks |-> None]
    /\ data = [p \in Tasks |-> None]
    /\ last = None
    /\ seen = [p \in Tasks |-> None]
    /\ grants = [p \in Tasks |-> 0]
    /\ ncalls = 0

Computed(p, tool, args, res) == Some([task |-> p, op |-> tool, args |-> args, res |-> res])

InFlight(tool) == Cardinality({q \in Tasks : op[q] = tool})

(***************************************************************************)
(* The RwLock (tokio::sync::RwLock: fair, first come first served).        *)
(***************************************************************************)
ReadFree == writer = None
WriteFree == writer = None /\ readers = {}

Free(tool) == IF tool \in WriteTools THEN WriteFree ELSE ReadFree

Take(p, tool) ==
    /\ IF tool \in WriteTools
       THEN writer' = Some(p) /\ UNCHANGED readers
       ELSE readers' = readers \cup {p} /\ UNCHANGED writer
    /\ grants' = [grants EXCEPT ![p] = @ + 1]

\* state.read().await / state.write().await, first poll: the guard is granted at
\* once when the lock is free and nobody waits; otherwise the task joins the queue
Request(p, tool) ==
    IF queue = <<>> /\ Free(tool)
    THEN Take(p, tool) /\ pc' = [pc EXCEPT ![p] = "locked"] /\ UNCHANGED queue
    ELSE /\ queue' = Append(queue, p)
         /\ pc' = [pc EXCEPT ![p] = "queued"]
         /\ UNCHANGED <<readers, writer, grants>>

(***************************************************************************)
(* handle_call_tool_request: dispatch of one call to its tool.             *)
(***************************************************************************)
\* the caller's budget of calls, where the domain sets one
Dispatch(D) ==
    /\ D.budget => ncalls < MaxCalls
    /\ ncalls' = IF D.budget THEN ncalls + 1 ELSE ncalls

\* faulty variant: the write guard is taken before the file is read
CallLoadLockFirst(p, D) ==
    /\ pc[p] = "idle"
    /\ Dispatch(D)
    /\ WriteFree /\ queue = <<>>
    /\ Take(p, "load_binary")
    /\ \E f \in D.paths : path' = [path EXCEPT ![p] = Some(f)]
    /\ op' = [op EXCEPT ![p] = "load_binary"]
    /\ pc' = [pc EXCEPT ![p] = "fs_read"]
    /\ UNCHANGED <<session, queue, data, last, seen>>

CallLoad(p, D) ==
    /\ pc[p] = "idle"
    /\ Dispatch(D)
    /\ \E f \in D.paths : path' = [path EXCEPT ![p] = Some(f)]
    /\ op' = [op EXCEPT ![p] = "load_binary"]
    /\ pc' = [pc EXCEPT ![p] = "fs_read"]
    /\ UNCHANGED <<session, lock, data, last, seen, grants>>

CallTool(p, D) ==
    /\ pc[p] = "idle"
    /\ Dispatch(D)
    /\ \E tool \in Tools \ {"load_binary"} :
          /\ tool = "extract_segment" => Len(segments) + InFlight(tool) < MaxSegs
          /\ tool = "add_note" => Len(analysis_notes) + InFlight(tool) < MaxNotes
          /\ op' = [op EXCEPT ![p] = tool]
          /\ Request(p, tool)
    /\ UNCHANGED <<session, path, data, last, seen>>

\* a released lock goes to the oldest waiter
Grant(p) ==
    /\ pc[p] = "queued"
    /\ queue # <<>> /\ Head(queue) = p
    /\ Free(op[p])
    /\ Take(p, op[p])
    /\ queue' = Tail(queue)
    /\ pc' = [pc EXCEPT ![p] = "locked"]
    /\ UNCHANGED <<session, op, path, data, last, seen, ncalls>>

\* the future completes (or its panic unwinds): the guard is dropped
Return(p) ==
    /\ pc[p] = "acted"
    /\ readers' = readers \ {p}
    /\ writer' = IF writer = Some(p) THEN None ELSE writer
    /\ pc' = [pc EXCEPT ![p] = "idle"]
    /\ op' = [op EXCEPT ![p] = "none"]
    /\ path' = [path EXCEPT ![p] = None]
    /\ data' = [data EXCEPT ![p] = None]
    /\ last' = IF last # None /\ last[1].task = p THEN None ELSE last
    /\ seen' = [seen EXCEPT ![p] = None]
    /\ grants' = [grants EXCEPT ![p] = 0]
    /\ UNCHANGED <<session, queue, ncalls>>

(***************************************************************************)
(* LoadBinary::call_tool: the file is read first, then the write guard is  *)
(* taken and the four fields are assigned one after the other.             *)
(***************************************************************************)
FsReadOk(p, D) ==
    /\ pc[p] = "fs_read"
    /\ \E d \in D.contents : data' = [data EXCEPT ![p] = Some(d)]
    /\ Request(p, "load_binary")
    /\ UNCHANGED <<session, op, path, last, seen, ncalls>>

\* faulty variant: the Session is reset before the file is read, so a failed
\* read leaves an empty buffer behind
FsReadErrAfterReset(p) ==
    /\ pc[p] = "fs_read"
    /\ buffer' = <<>> /\ file_loaded' = None
    /\ last' = Computed(p, "load_binary", [path |-> path[p][1]], Err("Failed to read file"))
    /\ pc' = [pc EXCEPT ![p] = "acted"]
    /\ UNCHANGED <<bookmarks, segments, analysis_notes, output, lock, op, path, data, seen, grants, ncalls>>

\* fs::read fails: `?` returns the error before state.write() is reached
FsReadErr(p) ==
    /\ pc[p] = "fs_read"
    /\ last' = Computed(p, "load_binary", [path |-> path[p][1]], Err("Failed to read file"))
    /\ pc' = [pc EXCEPT ![p] = "acted"]
    /\ UNCHANGED <<session, lock, op, path, data, seen, grants, ncalls>>

\* faulty variant: a segment's data is a view of the buffer, not a copy, so
\* replacing the buffer changes the bytes of the segments extracted before
LoadSetBufferUnderViews(p) ==
    /\ pc[p] = "locked" /\ op[p] = "load_binary"
    /\ buffer' = data[p][1]
    /\ segments' = [i \in 1 .. Len(segments) |->
                      [segments[i] EXCEPT !.data =
                          [k \in 1 .. Len(segments[i].data) |->
                              IF segments[i].offset + k <= Len(data[p][1])
                              THEN data[p][1][segments[i].offset + k] ELSE 0]]]
    /\ pc' = [pc EXCEPT ![p] = "load_file"]
    /\ UNCHANGED <<file_loaded, bookmarks, analysis_notes, output,
                   lock, op, path, data, seen, grants, last, ncalls>>

\* faulty variant: the bytes read are kept in a place the Loads share, so a Load may
\* install the bytes another Load has read
LoadSetBufferShared(p) ==
    /\ pc[p] = "locked" /\ op[p] = "load_binary"
    /\ \E q \in Tasks : data[q] # None /\ buffer' = data[q][1]
    /\ pc' = [pc EXCEPT ![p] = "load_file"]
    /\ UNCHANGED <<file_loaded, bookmarks, segments, analysis_notes, output,
                   lock, op, path, data, seen, grants, last, ncalls>>

LoadSetBuffer(p) ==
    /\ pc[p] = "locked" /\ op[p] = "load_binary"
    /\ buffer' = data[p][1]
    /\ pc' = [pc EXCEPT ![p] = "load_file"]
    /\ UNCHANGED <<file_loaded, bookmarks, segments, analysis_notes, output,
                   lock, op, path, data, seen, grants, last, ncalls>>

\* faulty variant: loading an empty file leaves no file loaded
LoadSetFileUnlessEmpty(p) ==
    /\ pc[p] = "load_file"
    /\ file_loaded' = IF buffer = <<>> THEN None ELSE Some(path[p][1])
    /\ pc' = [pc EXCEPT ![p] = "load_bookmarks"]
    /\ UNCHANGED <<buffer, bookmarks, segments, analysis_notes, output,
                   lock, op, path, data, seen, grants, last, ncalls>>

LoadSetFile(p) ==
    /\ pc[p] = "load_file"
    /\ file_loaded' = Some(path[p][1])
    /\ pc' = [pc EXCEPT ![p] = "load_bookmarks"]
    /\ UNCHANGED <<buffer, bookmarks, segments, analysis_notes, output,
                   lock, op, path, data, seen, grants, last, ncalls>>

\* faulty variant: s.bookmarks.clear() is missing
LoadKeepBookmarks(p) ==
    /\ pc[p] = "load_bookmarks"
    /\ pc' = [pc EXCEPT ![p] = "load_segments"]
    /\ UNCHANGED <<session, lock, op, path, data, seen, grants, last, ncalls>>

LoadClearBookmarks(p) ==
    /\ pc[p] = "load_bookmarks"
    /\ bookmarks' = EmptyMap
    /\ pc' = [pc EXCEPT ![p] = "load_segments"]
    /\ UNCHANGED <<buffer, file_loaded, segments, analysis_notes, output,
                   lock, op, path, data, seen, grants, last, ncalls>>

LoadClearSegments(p) ==
    /\ pc[p] = "load_segments"
    /\ segments' = <<>>
    /\ last' = Computed(p, "load_binary", [path |-> path[p][1]],
                        Ok([bytes |-> Len(data[p][1]), path |-> path[p][1]]))
    /\ pc' = [pc EXCEPT ![p] = "acted"]
    /\ UNCHANGED <<buffer, file_loaded, bookmarks, analysis_notes, output,
                   lock, op, path, data, seen, grants, ncalls>>

(***************************************************************************)
(* The other tools: the whole body runs under the guard taken on entry.    *)
(***************************************************************************)
\* the tools that compare their arguments with s.buffer.len() before they slice
CheckedTools == {"read_bytes", "extract_segment", "add_bookmark", "read_integer",
                 "calculate_hash"}

\* faulty variant: the guard is dropped once the bounds test has run
CheckThenRelease(p) ==
    /\ pc[p] = "locked" /\ op[p] \in CheckedTools
    /\ seen' = [seen EXCEPT ![p] = Some(buffer)]
    /\ readers' = readers \ {p}
    /\ writer' = IF writer = Some(p) THEN None ELSE writer
    /\ pc' = [pc EXCEPT ![p] = "checked"]
    /\ UNCHANGED <<session, queue, op, path, data, last, grants, ncalls>>

\* the bounds test against s.buffer.len(), under the guard taken on entry
Check(p) ==
    /\ pc[p] = "locked" /\ op[p] \in CheckedTools
    /\ seen' = [seen EXCEPT ![p] = Some(buffer)]
    /\ pc' = [pc EXCEPT ![p] = "checked"]
    /\ UNCHANGED <<session, lock, op, path, data, last, grants, ncalls>>

Acts(p, tool, args, res) ==
    /\ last' = Computed(p, tool, args, res)
    /\ pc' = [pc EXCEPT ![p] = "acted"]
    /\ UNCHANGED <<lock, op, path, data, seen, grants, ncalls>>

ReadBytes(p, D) ==
    /\ pc[p] = "checked" /\ op[p] = "read_bytes"
    /\ \E offset \in D.offsets, length \in D.lengths, checked \in BOOLEAN :
          Acts(p, "read_bytes", [offset |-> offset, length |-> length],
               ReadBytesBody(buffer, offset, length, checked))
    /\ UNCHANGED session

SearchPattern(p, D) ==
    /\ pc[p] = "locked" /\ op[p] = "search_pattern"
    /\ \E pattern \in D.patterns :
          Acts(p, "search_pattern", [pattern |-> pattern],
               SearchPatternBody(buffer, pattern))
    /\ UNCHANGED session

ExtractSegment(p, D) ==
    /\ pc[p] = "checked" /\ op[p] = "extract_segment"
    /\ \E offset \in D.offsets, length \in D.lengths, label \in D.labels, checked \in BOOLEAN :
          LET res == ExtractSegmentBody(buffer, offset, length, label, checked)
          IN  /\ segments' = IF res.kind = "ok" THEN Append(segments, res.val) ELSE segments
              /\ Acts(p, "extract_segment",
                      [offset |-> offset, length |-> length, label |-> label], res)
    /\ UNCHANGED <<buffer, file_loaded, bookmarks, analysis_notes, output>>

AddBookmark(p, D) ==
    /\ pc[p] = "checked" /\ op[p] = "add_bookmark"
    /\ \E name \in D.names, offset \in D.marks :
          LET res == AddBookmarkBody(buffer, name, offset)
          IN  /\ bookmarks' = IF res.kind = "ok" THEN MapInsert(bookmarks, name, offset)
                              ELSE bookmarks
              /\ Acts(p, "add_bookmark", [name |-> name, offset |-> offset], res)
    /\ UNCHANGED <<buffer, file_loaded, segments, analysis_notes, output>>

ReadString(p, D) ==
    /\ pc[p] = "locked" /\ op[p] = "read_string"
    /\ \E offset \in D.offsets, max_length \in D.lengths, checked \in BOOLEAN :
          Acts(p, "read_string", [offset |-> offset, max_length |-> max_length],
               ReadStringBody(buffer, offset, max_length, checked))
    /\ UNCHANGED session

ReadInteger(p, D) ==
    /\ pc[p] = "checked" /\ op[p] = "read_integer"
    /\ \E offset \in D.offsets, size \in D.sizes, endian \in D.endians, checked \in BOOLEAN :
          Acts(p, "read_integer", [offset |-> offset, size |-> size, endian |-> endian],
               ReadIntegerBody(buffer, offset, size, endian, checked))
    /\ UNCHANGED session

CalculateHash(p, D) ==
    /\ pc[p] = "checked" /\ op[p] = "calculate_hash"
    /\ \E offset \in D.opt_offs, length \in D.opt_lens, checked \in BOOLEAN :
          Acts(p, "calculate_hash", [offset |-> offset, length |-> length],
               CalculateHashBody(buffer, offset, length, checked))
    /\ UNCHANGED session

\* faulty variant: the bookmark and segment counts are reported in each other's place
GetInfoSwappedCounts(p) ==
    /\ pc[p] = "locked" /\ op[p] = "get_info"
    /\ Acts(p, "get_info", [none |-> TRUE],
            Ok([file |-> IF file_loaded = None THEN "None" ELSE file_loaded[1],
                size |-> Len(buffer),
                bookmarks |-> Len(segments),
                segments |-> Cardinality(DOMAIN bookmarks),
                notes |-> Len(analysis_notes)]))
    /\ UNCHANGED session

GetInfo(p) ==
    /\ pc[p] = "locked" /\ op[p] = "get_info"
    /\ Acts(p, "get_info", [none |-> TRUE],
            Ok([file |-> IF file_loaded = None THEN "None" ELSE file_loaded[1],
                size |-> Len(buffer),
                bookmarks |-> Cardinality(DOMAIN bookmarks),
                segments |-> Len(segments),
                notes |-> Len(analysis_notes)]))
    /\ UNCHANGED session

\* faulty variant: the note is put in front of the earlier notes
AddNotePrepend(p, D) ==
    /\ pc[p] = "locked" /\ op[p] = "add_note"
    /\ \E note \in D.notes :
          /\ analysis_notes' = <<note>> \o analysis_notes
          /\ Acts(p, "add_note", [note |-> note], Ok("Note added"))
    /\ UNCHANGED <<buffer, file_loaded, bookmarks, segments, output>>

AddNote(p, D) ==
    /\ pc[p] = "locked" /\ op[p] = "add_note"
    /\ \E note \in D.notes :
          /\ analysis_notes' = Append(analysis_notes, note)
          /\ Acts(p, "add_note", [note |-> note], Ok("Note added"))
    /\ UNCHANGED <<buffer, file_loaded, bookmarks, segments, output>>

SetOutput(p, D) ==
    /\ pc[p] = "locked" /\ op[p] = "set_output"
    /\ \E text \in D.texts :
          /\ output' = text
          /\ Acts(p, "set_output", [text |-> text], Ok("Output set"))
    /\ UNCHANGED <<buffer, file_loaded, bookmarks, segments, analysis_notes>>

Step(p, D) ==
    \/ CallLoad(p, D) \/ CallTool(p, D) \/ Return(p)
    \/ FsReadOk(p, D) \/ FsReadErr(p)
    \/ LoadSetBuffer(p) \/ LoadSetFile(p) \/ LoadClearBookmarks(p) \/ LoadClearSegments(p)
    \/ Check(p)
    \/ ReadBytes(p, D) \/ SearchPattern(p, D) \/ ExtractSegment(p, D) \/ AddBookmark(p, D)
    \/ ReadString(p, D) \/ ReadInteger(p, D) \/ CalculateHash(p, D) \/ GetInfo(p)
    \/ AddNote(p, D) \/ SetOutput(p, D)

\* concurrent callers: the dispatcher runs every call as a task of its own
Next == \E p \in Tasks : Step(p, Small) \/ Grant(p)

Spec == Init /\ [][Next]_vars

\* one caller, one command at a time, over the full input domains
NextSeq == Step("t1", Full)

SpecSeq == Init /\ [][NextSeq]_vars

\* every step of a call after its dispatch
Advance(p, D) ==
    \/ Grant(p) \/ Return(p)
    \/ FsReadOk(p, D) \/ FsReadErr(p)
    \/ LoadSetBuffer(p) \/ LoadSetFile(p) \/ LoadClearBookmarks(p) \/ LoadClearSegments(p)
    \/ Check(p)
    \/ ReadBytes(p, D) \/ SearchPattern(p, D) \/ ExtractSegment(p, D) \/ AddBookmark(p, D)
    \/ ReadString(p, D) \/ ReadInteger(p, D) \/ CalculateHash(p, D) \/ GetInfo(p)
    \/ AddNote(p, D) \/ SetOutput(p, D)

NextFair == \E p \in Tasks : Step(p, Tiny) \/ Grant(p)

\* concurrent callers under a fair scheduler and a fair lock: a call that can take
\* a step eventually takes one; new calls need not arrive
SpecFair == Init /\ [][NextFair]_vars /\ \A p \in Tasks : WF_vars(Advance(p, Tiny))

(***************************************************************************)
(* Properties.                                                             *)
(***************************************************************************)
Computes(tool) == last # None /\ last[1].op = tool
Args == last[1].args
Res == last[1].res

RangeFailures == {"Read exceeds buffer bounds", "Segment exceeds buffer bounds",
                  "Range exceeds buffer size", "Offset exceeds buffer size"}
IsRangeFailure(res) == res.kind = "err" /\ res.val \in RangeFailures

\* the guard-holding positions of a call: from the grant to the return, except a
\* Load whose file read failed, which returns without having asked for the lock
HoldsGuard(p) ==
    \/ pc[p] \in {"locked", "checked", "load_file", "load_bookmarks", "load_segments"}
    \/ pc[p] = "acted" /\ ~(op[p] = "load_binary" /\ data[p] = None)
Mutators == {"load_binary", "extract_segment", "add_bookmark", "add_note", "set_output"}
Inspectors == {"read_bytes", "search_pattern", "read_string", "read_integer",
               "calculate_hash", "get_info"}
HoldingWriters == {p \in Tasks : HoldsGuard(p) /\ op[p] \in Mutators}
HoldingReaders == {p \in Tasks : HoldsGuard(p) /\ op[p] \in Inspectors}

\* the step in which task p computes the result of its call
Computing(p) == pc[p] # "acted" /\ pc'[p] = "acted"

\* the requested range of the four range-checked tools, as mathematical integers
RangeEnd ==
    CASE Computes("read_bytes") -> Args.offset + Args.length
      [] Computes("extract_segment") -> Args.offset + Args.length
      [] Computes("read_integer") -> Args.offset + Args.size
      [] Computes("calculate_hash") /\ Args.offset # None /\ Args.length # None
           -> Args.offset[1] + Args.length[1]
      [] OTHER -> 0

\* C1: whenever ReadBytes, ExtractSegment, CalculateHash(offset, length) or
\* ReadInteger is asked for a range with offset + length > buffer.length, the step
\* that computes its result yields a range failure and changes no Session field.
C1_BoundsSafety ==
    [][\A p \in Tasks :
          (Computing(p) /\ (RangeEnd > Len(buffer))')
          => IsRangeFailure(Res)' /\ UNCHANGED session]_vars

\* C2: no call of any of the eleven tools, on any reachable Session and with any
\* arguments, ends in a panic: each computes a result or a failure.
C2_NeverPanics == last # None => Res.kind # "panic"

\* C3: the steps of a Load whose file read fails (its dispatch, the failed read,
\* its return) change no Session field, the call's result is a failure, and that
\* Load never holds the write guard, whatever the other task does in between.
C3_LoadAtomicity ==
    [][\A p \in Tasks :
          (/\ pc'[p] # pc[p]
           /\ op[p] = "load_binary" \/ op'[p] = "load_binary"
           /\ data[p] = None /\ data'[p] = None)
          => /\ UNCHANGED session /\ writer' # Some(p)
             /\ pc'[p] = "acted" => Res'.kind = "err"]_vars

\* C3 witness: a Load has failed on a Session that holds a loaded buffer and an
\* extracted segment, while the other task is in the middle of a call of its own.
C3_Witness ==
    /\ Computes("load_binary") /\ Res.kind = "err"
    /\ buffer # <<>> /\ segments # <<>>
    /\ \E q \in Tasks : q # last[1].task /\ pc[q] = "locked"

InLoad(p) ==
    op[p] = "load_binary" /\ pc[p] \in {"locked", "load_file", "load_bookmarks", "load_segments"}

\* C4: while a Load holds the write guard no step changes notes or output, and at
\* the step that completes it bookmarks and segments are empty, buffer is the bytes
\* it read and file_loaded is its path.
C4_LoadResets ==
    [][\A p \in Tasks :
          InLoad(p) =>
            /\ analysis_notes' = analysis_notes /\ output' = output
            /\ pc'[p] = "acted" =>
                 /\ bookmarks' = EmptyMap /\ segments' = <<>>
                 /\ buffer' = data[p][1] /\ file_loaded' = Some(path[p][1])
                 /\ Res' = Ok([bytes |-> Len(data[p][1]), path |-> path[p][1]])]_vars

\* C4 witness: a Load has replaced the buffer of a Session that holds a bookmark, a
\* segment, a note and an output, and is about to clear the derived collections.
C4_Witness ==
    \E p \in Tasks :
        /\ pc[p] = "load_bookmarks"
        /\ DOMAIN bookmarks # {} /\ segments # <<>>
        /\ analysis_notes # <<>> /\ output # <<>>

SegmentsKept ==
    \A i \in 1 .. Len(segments) : i <= Len(segments') /\ segments'[i] = segments[i]

\* C5 (as claimed): every step of a Load keeps the segments extracted before it,
\* with their bytes unchanged.
C5_SegmentSurvivesLoad ==
    [][(\E p \in Tasks : op[p] = "load_binary" /\ pc'[p] # pc[p]) => SegmentsKept]_vars

\* C5 (amended): ExtractSegment appends an entry holding a copy of
\* buffer[offset .. offset + length]; every later step either keeps each entry in
\* place with the same bytes (also when a Load replaces the buffer) or is the last
\* step of a successful Load, which removes all entries.
C5_SegmentUntilLoad ==
    [][/\ \/ SegmentsKept
          \/ \E p \in Tasks : pc[p] = "load_segments" /\ pc'[p] = "acted" /\ segments' = <<>>
       /\ \A p \in Tasks :
            (Computing(p) /\ Computes("extract_segment")' /\ Res'.kind = "ok")
            => segments' = Append(segments,
                                  [offset |-> Args'.offset,
                                   data |-> SubSeq(buffer, Args'.offset + 1,
                                                   Args'.offset + Args'.length),
                                   label |-> Args'.label])]_vars

\* C5 witness: a Load has replaced the buffer while a segment extracted from the
\* old buffer still holds bytes that differ from the new buffer at its offset.
C5_Witness ==
    \E p \in Tasks :
        /\ pc[p] = "load_segments"
        /\ segments # <<>> /\ segments[1].data # <<>>
        /\ segments[1].data #
             SubSeq(buffer, segments[1].offset + 1,
                    segments[1].offset + Len(segments[1].data))

\* C6: at most one mutating tool holds the guard, and none does while an
\* inspecting tool holds it.
C6_ReadersWriterExclusion ==
    /\ Cardinality(HoldingWriters) <= 1
    /\ HoldingWriters # {} => HoldingReaders = {}

\* C6 witness: two inspecting tools hold the guard at the same time.
C6_Witness == Cardinality(HoldingReaders) >= 2

MidLoad(p) == pc[p] \in {"load_file", "load_bookmarks", "load_segments"}

\* C7: while a Load is between its first and its last assignment, no other call
\* holds a guard, and every result computed meanwhile is that Load's own.
C7_ConsistentSnapshot ==
    \A p \in Tasks :
        MidLoad(p) =>
          /\ \A q \in Tasks \ {p} : ~HoldsGuard(q)
          /\ last # None => ~HoldsGuard(last[1].task)

\* C7 witness: a Load has replaced the buffer and not yet cleared a bookmark of the
\* previous buffer, while an inspecting tool waits for the guard.
C7_Witness ==
    \E p, q \in Tasks :
        /\ pc[p] = "load_bookmarks" /\ DOMAIN bookmarks # {}
        /\ pc[q] = "queued" /\ op[q] \in Inspectors

MatchSet(buf, pat) ==
    {i \in 0 .. Len(buf) - Len(pat) : \A k \in 1 .. Len(pat) : buf[i + k] = pat[k]}
IsAscending(seq) == \A i, j \in 1 .. Len(seq) : i < j => seq[i] < seq[j]

\* C8: for the hex encoding of a non-empty byte string no longer than the buffer,
\* SearchPattern returns the offsets at which the buffer holds those bytes: all of
\* them, each once, ascending, overlapping matches included.
C8_SearchComplete ==
    Computes("search_pattern") =>
      \A b \in Contents :
          (b # <<>> /\ HexEncode(b) = Args.pattern /\ Len(b) <= Len(buffer))
          => /\ Res.kind = "ok"
             /\ IsAscending(Res.val)
             /\ {Res.val[i] : i \in 1 .. Len(Res.val)} = MatchSet(buffer, b)

\* C8 witness: a two-byte pattern found at the overlapping offsets 0 and 1.
C8_Witness ==
    /\ Computes("search_pattern") /\ Len(Args.pattern) = 4
    /\ Res = Ok(<<0, 1>>)

\* C9: SearchPattern with the empty hex string returns zero matches.
C9_EmptyPatternNoMatch ==
    (Computes("search_pattern") /\ Args.pattern = <<>>) => Res = Ok(<<>>)

\* C10: ReadString with an offset beyond the end of the buffer returns the empty
\* string as a successful result.
C10_ReadStringPastEnd ==
    (Computes("read_string") /\ Args.offset > Len(buffer))
      => Res.kind = "ok" /\ Res.val.text = <<>>

\* the longest prefix of bytes that holds no zero byte
UpToZero(bytes) ==
    LET n == CHOOSE k \in 0 .. Len(bytes) :
                 /\ \A j \in 1 .. k : bytes[j] # 0
                 /\ k < Len(bytes) => bytes[k + 1] = 0
    IN  SubSeq(bytes, 1, n)

\* buf[a .. b] by 0-based bounds, as a value of its own
Range(buf, a, b) == SubSeq(buf, a + 1, b)

\* C11: for offset <= buffer.length ReadString succeeds with the bytes
\* buffer[offset .. min(offset + max_length, len)] cut before their first zero
\* byte, and the byte count it reports is the number of bytes returned.
C11_StringTruncation ==
    (Computes("read_string") /\ Args.offset <= Len(buffer))
      => LET cut == UpToZero(Range(buffer, Args.offset,
                                   Min(Args.offset + Args.max_length, Len(buffer))))
         IN  /\ Res.kind = "ok"
             /\ Res.val.text = cut
             /\ Res.val.len = Len(cut)

\* the unsigned value of bytes in which the byte at 0-based index k weighs
\* 256^k (little) or 256^(size - 1 - k) (big), as four 16-bit limbs
Weighted(bytes, endian) ==
    LET size == Len(bytes)
        expo(k) == IF endian = "little" THEN k ELSE size - 1 - k
        digit(e) == IF \E k \in 0 .. size - 1 : expo(k) = e
                    THEN bytes[(CHOOSE k \in 0 .. size - 1 : expo(k) = e) + 1]
                    ELSE 0
    IN  [j \in 1 .. 4 |-> digit(2 * j - 2) + 256 * digit(2 * j - 1)]

\* C12: for size in {1,2,4,8}, endian little or big and offset + size within the
\* buffer, ReadInteger returns the unsigned value of the size bytes at offset with
\* the weights of that endianness; for size 1 it is the byte itself either way.
C12_IntegerDecode ==
    (/\ Computes("read_integer")
     /\ Args.size \in {1, 2, 4, 8} /\ Args.endian \in {"little", "big"}
     /\ Args.offset + Args.size <= Len(buffer))
      => /\ Res = Ok([size |-> Args.size,
                      value |-> Weighted(Range(buffer, Args.offset, Args.offset + Args.size),
                                         Args.endian)])
         /\ Args.size = 1 => Res.val.value = <<buffer[Args.offset + 1], 0, 0, 0>>

\* C12 witness: the eight bytes 01 02 03 04 05 06 07 08 decoded big-endian, which is
\* 0x0102030405060708: limbs 0x0708, 0x0506, 0x0304, 0x0102.
C12_Witness ==
    /\ Computes("read_integer") /\ Args.size = 8 /\ Args.endian = "big"
    /\ Res.kind = "ok" /\ Res.val.value = <<1800, 1286, 772, 258>>

\* C13: whenever size is none of 1, 2, 4, 8 or endian is neither "little" nor
\* "big", ReadInteger returns the format failure, whatever the buffer and offset.
C13_FormatIndependent ==
    (/\ Computes("read_integer")
     /\ Args.size \notin {1, 2, 4, 8} \/ Args.endian \notin {"little", "big"})
      => Res = Err("Invalid size or endianness")

\* C14: a successful CalculateHash returns the digest of exactly the selected bytes
\* buffer[start .. end], so equal selected bytes give equal digests whatever the
\* buffer and the arguments; and with no offset and no length it returns what
\* CalculateHash(0, buffer.length) returns.
C14_HashDeterminism ==
    Computes("calculate_hash") =>
      /\ Res.kind = "ok" =>
            /\ Res.val.sha256 = Sha256(Range(buffer, Res.val.start, Res.val.end))
            /\ \A b \in Contents, o, l \in 0 .. MaxLen :
                  (/\ o + l <= Len(b)
                   /\ Range(b, o, o + l) = Range(buffer, Res.val.start, Res.val.end))
                  => \A c \in BOOLEAN :
                        CalculateHashBody(b, Some(o), Some(l), c).val.sha256 = Res.val.sha256
      /\ (Args.offset = None /\ Args.length = None) =>
            \A c \in BOOLEAN :
                Res = CalculateHashBody(buffer, Some(0), Some(Len(buffer)), c)

\* C14 witness: CalculateHash with no arguments has hashed a whole non-empty buffer.
C14_Witness ==
    /\ Computes("calculate_hash") /\ Args.offset = None /\ Args.length = None
    /\ Res.kind = "ok" /\ Res.val.nbytes = Len(buffer) /\ Len(buffer) >= 2

\* C15: the step that computes AddBookmark(name, offset) succeeds exactly when
\* offset <= buffer.length; then bookmarks maps name to offset, keeps every other
\* entry and holds no name twice; otherwise the result is a range failure and
\* bookmarks is unchanged.
C15_AddBookmark ==
    [][\A p \in Tasks :
          (Computing(p) /\ Computes("add_bookmark")')
          => IF Args'.offset <= Len(buffer)
             THEN /\ Res'.kind = "ok"
                  /\ DOMAIN bookmarks' = DOMAIN bookmarks \cup {Args'.name}
                  /\ bookmarks'[Args'.name] = Args'.offset
                  /\ \A n \in DOMAIN bookmarks \ {Args'.name} : bookmarks'[n] = bookmarks[n]
                  /\ Args'.name \in DOMAIN bookmarks
                       => Cardinality(DOMAIN bookmarks') = Cardinality(DOMAIN bookmarks)
             ELSE IsRangeFailure(Res') /\ bookmarks' = bookmarks]_vars

\* C15 witness: a bookmark one past the end of a non-empty buffer was accepted, next
\* to a bookmark of another name.
C15_Witness ==
    /\ Computes("add_bookmark") /\ Res.kind = "ok"
    /\ Len(buffer) >= 1 /\ Args.offset = Len(buffer)
    /\ Cardinality(DOMAIN bookmarks) = 2

\* the tool whose call moves in this step, for the task p that moves
Moves(p) == pc'[p] # pc[p]
ToolOf(p) == IF op[p] = "none" THEN op'[p] ELSE op[p]

\* C16: buffer and file_loaded change only in the steps of a Load whose file read
\* succeeded; the steps of ExtractSegment change only segments, by appending the
\* entry {offset, buffer[offset .. offset + length], label} when it succeeds; those
\* of AddBookmark change only bookmarks; those of AddNote only notes, by appending
\* the note; those of SetOutput only output; those of the six read tools nothing.
C16_Frame ==
    [][/\ (buffer' # buffer \/ file_loaded' # file_loaded)
            => \E p \in Tasks : Moves(p) /\ op[p] = "load_binary" /\ data[p] # None
       /\ \A p \in Tasks :
            Moves(p) =>
              /\ ToolOf(p) = "extract_segment" =>
                    /\ UNCHANGED <<buffer, file_loaded, bookmarks, analysis_notes, output>>
                    /\ segments' =
                         IF Computing(p) /\ Res'.kind = "ok"
                         THEN Append(segments,
                                     [offset |-> Args'.offset,
                                      data |-> Range(buffer, Args'.offset,
                                                     Args'.offset + Args'.length),
                                      label |-> Args'.label])
                         ELSE segments
              /\ ToolOf(p) = "add_bookmark" =>
                    UNCHANGED <<buffer, file_loaded, segments, analysis_notes, output>>
              /\ ToolOf(p) = "add_note" =>
                    /\ UNCHANGED <<buffer, file_loaded, bookmarks, segments, output>>
                    /\ analysis_notes' =
                         IF Computing(p) THEN Append(analysis_notes, Args'.note)
                         ELSE analysis_notes
              /\ ToolOf(p) = "set_output" =>
                    UNCHANGED <<buffer, file_loaded, bookmarks, segments, analysis_notes>>
              /\ ToolOf(p) \in Inspectors => UNCHANGED session]_vars

\* C16 witness: a note with empty text was appended behind an earlier note.
C16_Witness ==
    /\ Computes("add_note") /\ Args.note = <<>>
    /\ analysis_notes = << <<"n">>, <<>> >>

\* C17: the Session starts with an empty buffer and no file loaded; file_loaded
\* changes only in a step of a Load whose file read succeeded, and once set it is
\* never unset; and a read tool that holds the guard can compute its result
\* whether a file is loaded or not.
C17_StateMachine ==
    /\ (buffer = <<>> /\ file_loaded = None)
    /\ [][/\ (file_loaded' # file_loaded)
               => (\E p \in Tasks : /\ pc[p] = "load_file" /\ pc'[p] = "load_bookmarks"
                                    /\ data[p] # None)
          /\ (file_loaded # None) => (file_loaded' # None)]_vars
    /\ [](\A p \in Tasks :
              (pc[p] \in {"locked", "checked"} /\ op[p] \in Inspectors)
                 => ENABLED Step(p, Full))

\* C17 witness: a read tool has computed its result on a Session that a Load of an
\* empty file left loaded with a buffer of length 0.
C17_Witness ==
    /\ file_loaded # None /\ buffer = <<>>
    /\ Computes("read_bytes") /\ Res.kind = "ok"

\* C18: GetInfo succeeds and reports the file loaded (or none), the length of the
\* buffer, the number of bookmarked names, of segments and of notes of the current
\* Session.
C18_GetInfo ==
    Computes("get_info") =>
      /\ Res.kind = "ok"
      /\ Res.val.file = (IF file_loaded = None THEN "None" ELSE file_loaded[1])
      /\ Res.val.size = Len(buffer)
      /\ Res.val.bookmarks = Cardinality(DOMAIN bookmarks)
      /\ Res.val.segments = Len(segments)
      /\ Res.val.notes = Len(analysis_notes)

\* C18 witness: after the Load of the ten-byte file and AddBookmark("start", 0),
\* GetInfo reports size 10, bookmarks 1, segments 0.
C18_Witness ==
    /\ Computes("get_info") /\ Len(buffer) = 10
    /\ DOMAIN bookmarks = {"start"} /\ bookmarks["start"] = 0
    /\ Res.val.size = 10 /\ Res.val.bookmarks = 1 /\ Res.val.segments = 0

\* C19: CalculateHash with an offset and no length hashes buffer[offset .. len]
\* when offset <= buffer.length and returns a range failure when offset is greater.
C19_HashDefaultLength ==
    (Computes("calculate_hash") /\ Args.offset # None /\ Args.length = None)
      => IF Args.offset[1] <= Len(buffer)
         THEN /\ Res.kind = "ok"
              /\ Res.val.sha256 = Sha256(Range(buffer, Args.offset[1], Len(buffer)))
              /\ Res.val.nbytes = Len(buffer) - Args.offset[1]
         ELSE IsRangeFailure(Res)

\* C20: SearchPattern with a well-formed, non-empty pattern longer than the buffer
\* returns zero matches as a successful result.
C20_LongPatternNoMatch ==
    (/\ Computes("search_pattern")
     /\ HexDecode(Args.pattern).kind = "ok"
     /\ Args.pattern # <<>>
     /\ Len(Args.pattern) > 2 * Len(buffer))
      => Res = Ok(<<>>)

\* offset + length (or max_length, or size) of the computed call, as a mathematical
\* integer; 0 for the calls that add nothing
WordSum ==
    CASE Computes("read_string") -> Args.offset + Args.max_length
      [] OTHER -> RangeEnd

\* C21: when the true sum of offset and length exceeds usize::MAX, ReadBytes,
\* ExtractSegment, ReadInteger and CalculateHash return a range failure and
\* ReadString does not slice the buffer: none of them panics.
C21_OverflowSound ==
    (last # None /\ WordSum > UsizeMax)
      => /\ Res.kind # "panic"
         /\ ~Computes("read_string") => IsRangeFailure(Res)

\* task p holds a guard of the RwLock
Holds(p) == p \in readers \/ writer = Some(p)

\* the step in which the call of task p returns
Returns(p) == pc[p] = "acted" /\ pc'[p] = "idle"

FailedLoad(p) == op[p] = "load_binary" /\ data[p] = None

\* from the grant to the return a call holds its guard; no call is granted a second
\* guard; and the buffer a bounds test looked at is still the buffer when the
\* call slices or mutates
CheckThenAct ==
    \A p \in Tasks :
        /\ HoldsGuard(p) => Holds(p)
        /\ grants[p] <= 1
        /\ pc[p] = "checked" => seen[p] = Some(buffer)
        /\ (pc[p] = "acted" /\ seen[p] # None) => seen[p] = Some(buffer)

\* C22 (as claimed): check and act happen under one grant that is held in between,
\* and every call has acquired Session access exactly once when it returns.
C22_ExactlyOneGrant ==
    /\ []CheckThenAct
    /\ [][\A p \in Tasks : Returns(p) => grants[p] = 1]_vars

\* C22 (amended): check and act happen under one grant that is held in between, no
\* call acquires access a second time, and every call has acquired it exactly
\* once when it returns, except a Load whose file read failed, which has acquired
\* none.
C22_AtMostOneGrant ==
    /\ []CheckThenAct
    /\ [][\A p \in Tasks :
             Returns(p) => grants[p] = (IF FailedLoad(p) THEN 0 ELSE 1)]_vars

\* C22 witness: ExtractSegment has tested its range and pushed its segment while a
\* Load that has read a different file waits for the write guard.
C22_Witness ==
    \E p, q \in Tasks :
        /\ pc[p] = "acted" /\ op[p] = "extract_segment"
        /\ Computes("extract_segment") /\ Res.kind = "ok"
        /\ seen[p] = Some(buffer)
        /\ pc[q] = "queued" /\ op[q] = "load_binary" /\ data[q] # Some(buffer)

Waiting == {queue[i] : i \in 1 .. Len(queue)}

\* C23: a Load that is reading its file holds no guard and does not wait for one,
\* so it blocks nobody; it asks for the write guard in the step in which its read
\* succeeds and not before; and a Load whose read fails is never granted the
\* guard.
C23_LoadOrdering ==
    /\ [](\A p \in Tasks :
             /\ pc[p] = "fs_read" => ~Holds(p) /\ p \notin Waiting /\ grants[p] = 0
             /\ FailedLoad(p) => ~Holds(p) /\ p \notin Waiting /\ grants[p] = 0)
    /\ [][\A p \in Tasks :
             (op'[p] = "load_binary" /\ (p \in Waiting' \/ Holds(p)') /\ ~(p \in Waiting \/ Holds(p)))
             => (pc[p] = "fs_read" /\ data'[p] # None)]_vars

\* C23 witness: while a Load is reading its file, the other task has been granted
\* the write guard and has extracted a segment.
C23_Witness ==
    \E p, q \in Tasks :
        /\ pc[p] = "fs_read"
        /\ pc[q] = "acted" /\ op[q] = "extract_segment" /\ writer = Some(q)
        /\ Computes("extract_segment") /\ Res.kind = "ok"

\* no Load is between its first and its last assignment
Settled == \A p \in Tasks : ~MidLoad(p)

\* C25: whenever no Load is in the middle of its assignments, every offset stored
\* in bookmarks is at most the length of the buffer.
C25_BookmarksValid ==
    Settled => \A n \in DOMAIN bookmarks : bookmarks[n] <= Len(buffer)

\* C25 witness: a bookmark one past the end of the buffer is held while the other
\* task's Load, which has read a shorter file, waits for the write guard.
C25_Witness ==
    /\ Settled
    /\ \E n \in DOMAIN bookmarks : bookmarks[n] = Len(buffer) /\ Len(buffer) >= 2
    /\ \E q \in Tasks : /\ pc[q] = "queued" /\ op[q] = "load_binary"
                        /\ Len(data[q][1]) < Len(buffer)

\* C26: whenever no Load is in the middle of its assignments, every segment lies
\* inside the buffer and holds the bytes the buffer holds at its offset; and
\* segments changes only by the last step of a Load, which empties it, or by an
\* ExtractSegment that holds the write guard and appends its entry at the end, so
\* the entries stand in the order in which their calls were granted the guard.
C26_SegmentsValid ==
    /\ [](Settled =>
            \A i \in 1 .. Len(segments) :
                /\ segments[i].offset + Len(segments[i].data) <= Len(buffer)
                /\ segments[i].data =
                     Range(buffer, segments[i].offset,
                           segments[i].offset + Len(segments[i].data)))
    /\ [][segments' # segments =>
             \E p \in Tasks :
                 /\ writer = Some(p) /\ Moves(p)
                 /\ \/ op[p] = "load_binary" /\ segments' = <<>>
                    \/ /\ op[p] = "extract_segment"
                       /\ Len(segments') = Len(segments) + 1
                       /\ SubSeq(segments', 1, Len(segments)) = segments]_vars

\* C26 witness: two segments of different offsets extracted by concurrent calls
\* stand in segments, the later one behind the earlier one.
C26_Witness ==
    /\ Settled /\ Len(segments) = 2
    /\ segments[1].offset # segments[2].offset
    /\ Computes("extract_segment") /\ Res.kind = "ok"
    /\ Args.offset = segments[2].offset
    /\ \E q \in Tasks : q # last[1].task /\ pc[q] # "idle"

\* C27: whenever no Load is in the middle of its assignments, buffer and
\* file_loaded are the pair the last completed Load installed: they change only
\* in the steps of a Load that holds the write guard, and when a Load has made its
\* last assignment they are the bytes that Load read and the path it was given,
\* and the byte count it reports is the length of the buffer, until it releases
\* the guard.
C27_ConcurrentLoads ==
    /\ [](\A p \in Tasks :
             (pc[p] = "acted" /\ op[p] = "load_binary" /\ data[p] # None)
             => /\ writer = Some(p)
                /\ buffer = data[p][1] /\ file_loaded = path[p])
    /\ [][/\ (buffer' # buffer \/ file_loaded' # file_loaded)
               => (\E p \in Tasks : writer = Some(p) /\ InLoad(p) /\ Moves(p))
          /\ (Settled /\ Settled') => UNCHANGED <<buffer, file_loaded>>
          /\ \A p \in Tasks :
                (Computing(p) /\ op[p] = "load_binary" /\ data[p] # None)
                => Res' = Ok([bytes |-> Len(buffer'), path |-> file_loaded'[1]])]_vars

\* C27 witness: a Load has completed and still holds the write guard while another
\* Load, of the other path and with other bytes read, waits for it.
C27_Witness ==
    \E p, q \in Tasks :
        /\ pc[p] = "acted" /\ op[p] = "load_binary" /\ data[p] # None
        /\ pc[q] = "queued" /\ op[q] = "load_binary"
        /\ path[q] # path[p] /\ data[q] # data[p]

\* C24: under a fair lock and a fair scheduler every invoked call eventually
\* returns, and what it has computed when it returns is a result or a failure.
C24_Progress ==
    /\ \A p \in Tasks : (pc[p] # "idle") ~> (pc[p] = "idle")
    /\ [][\A p \in Tasks : Computing(p) => Res'.kind \in {"ok", "err"}]_vars

====
